---- MODULE Spec2Model ----
(***************************************************************************)
(* Book-swap dashboard: the data-adaptive aggregation pipeline of the      *)
(* three charts (GenreBarChart, RatingYearHeatmap, ParallelCoords) and the *)
(* load / resize / draw life cycle of a chart instance.                    *)
(*                                                                         *)
(* Numbers are fixed-point with one decimal digit: the integer n stands    *)
(* for the JavaScript number n/10 (19950 is the year 1995, 36 the rating   *)
(* 3.6).  Text is a sequence of one-character strings.                     *)
(***************************************************************************)
EXTENDS Integers, Sequences, FiniteSets, TLC

VARIABLES
    chart,      \* which component the instance is
    rows,       \* useState rows: the loaded dataset
    config,     \* the component's props
    prepared,   \* the useMemo aggregate handed to the draw effect
    pc,         \* position of the aggregation / call
    arg,        \* argument of a helper call (coercion, column resolver)
    ret,        \* its result
    mounted,    \* the instance is mounted
    cancelled,  \* the load effect's cancellation flag
    load,       \* the d3.csv promise: "pending", "resolved", "rejected"
    width,      \* useState width
    dirty,      \* what was set since the last render: "rows", "width", "props"
    container,  \* the children of the container element, one per drawing
    tooltip,    \* tooltipRef.current, the tooltip elements in the page, the cleanup
    draws       \* history: the drawings made so far, counted up to MaxDraws

vars == <<chart, rows, config, prepared, pc, arg, ret,
          mounted, cancelled, load, width, dirty, container, tooltip, draws>>

(***************************************************************************)
(* JavaScript values of a cell                                             *)
(***************************************************************************)
Undef == [t |-> "undefined"]
Null == [t |-> "null"]
NaNv == [t |-> "number", k |-> "NaN"]
Infv == [t |-> "number", k |-> "Infinity"]
Num(n) == [t |-> "number", k |-> "finite", n |-> n]
Str(s) == [t |-> "string", s |-> s]
Bool(b) == [t |-> "boolean", b |-> b]
\* an object: its own fields <<name, value>> in insertion order, names distinct
Obj(f) == [t |-> "object", f |-> f]

IsFinite(v) == v.t = "number" /\ v.k = "finite"

Digits == <<"0", "1", "2", "3", "4", "5", "6", "7", "8", "9">>

IsDigit(c) == \E i \in 1..10 : Digits[i] = c

DigitVal(c) == (CHOOSE i \in 1..10 : Digits[i] = c) - 1

RECURSIVE IntOf(_)
IntOf(ds) ==
    IF ds = <<>> THEN 0
    ELSE IntOf(SubSeq(ds, 1, Len(ds) - 1)) * 10 + DigitVal(ds[Len(ds)])

\* String.prototype.trim: leading and trailing white space removed
RECURSIVE Trim(_)
Trim(s) ==
    IF s = <<>> THEN s
    ELSE IF s[1] = " " THEN Trim(Tail(s))
    ELSE IF s[Len(s)] = " " THEN Trim(SubSeq(s, 1, Len(s) - 1))
    ELSE s

\* StringToNumber on the unsigned part: digits, at most one ".", one digit at
\* least; the fixed-point value keeps the first fractional digit.
UnsignedToNumber(s) ==
    LET dots == {i \in 1..Len(s) : s[i] = "."}
        ok == /\ \A i \in 1..Len(s) : IsDigit(s[i]) \/ s[i] = "."
              /\ Cardinality(dots) <= 1
              /\ \E i \in 1..Len(s) : IsDigit(s[i])
        p == IF dots = {} THEN Len(s) + 1 ELSE CHOOSE i \in dots : TRUE
        whole == IntOf(SubSeq(s, 1, p - 1))
        frac == IF p + 1 <= Len(s) THEN DigitVal(s[p + 1]) ELSE 0
    IN IF ok THEN Num(whole * 10 + frac) ELSE NaNv

\* Number(v) for a string: trimmed; the empty string is 0; a signed decimal
\* literal is its value; anything else is NaN
StringToNumber(s) ==
    LET t == Trim(s)
    IN IF t = <<>> THEN Num(0)
       ELSE IF t[1] = "-"
            THEN LET u == UnsignedToNumber(Tail(t))
                 IN IF IsFinite(u) THEN Num(0 - u.n) ELSE NaNv
       ELSE IF t[1] = "+" THEN UnsignedToNumber(Tail(t))
       ELSE UnsignedToNumber(t)

\* Number(v): ToNumber of the language
Number(v) ==
    CASE v.t = "number" -> v
      [] v.t = "undefined" -> NaNv
      [] v.t = "null" -> Num(0)
      [] v.t = "boolean" -> IF v.b THEN Num(10) ELSE Num(0)
      [] v.t = "string" -> StringToNumber(v.s)

(***************************************************************************)
(* Rows and the column resolver                                            *)
(***************************************************************************)
\* String.prototype.toLowerCase on the field names and aliases of the model
Lower(k) ==
    CASE k = "Genres" -> "genres"
      [] k = "GENRE" -> "genre"
      [] k = "Title" -> "title"
      [] k = "Year" -> "year"
      [] k = "Rating" -> "rating"
      [] k = "ISBN" -> "isbn"
      [] k = "Id" -> "id"
      [] k = "Pages" -> "pages"
      [] k = "publicationYear" -> "publicationyear"
      [] k = "pageCount" -> "pagecount"
      [] k = "ratingsCount" -> "ratingscount"
      [] k = "exchangeCount" -> "exchangecount"
      [] k = "swapCount" -> "swapcount"
      [] OTHER -> k

\* null where a field name is expected: no field is so spelled
NoKey == "<null>"

\* !row
Falsy(row) == row.t \in {"undefined", "null"}

\* Object.keys(row)
Keys(row) == [i \in 1..Len(row.f) |-> row.f[i][1]]

\* r?.[k]
Get(r, k) ==
    IF Falsy(r) THEN Undef
    ELSE LET at == {i \in 1..Len(r.f) : r.f[i][1] = k}
         IN IF at = {} THEN Undef ELSE r.f[CHOOSE i \in at : TRUE][2]

SetMax(S) == CHOOSE x \in S : \A y \in S : y <= x

SetMin(S) == CHOOSE x \in S : \A y \in S : x <= y

\* new Map(keys.map(k => [k.toLowerCase(), k])): a later key replaces an
\* earlier one of the same lowercased form; the candidates are then tried in
\* their order, and an empty field name is falsy
pickKey(row, candidates) ==
    IF Falsy(row) THEN NoKey
    ELSE LET keys == Keys(row)
             at(c) == {i \in 1..Len(keys) : Lower(keys[i]) = c}
             actual(c) == keys[SetMax(at(c))]
             found == {j \in 1..Len(candidates) :
                          at(candidates[j]) # {} /\ actual(candidates[j]) # ""}
         IN IF found = {} THEN NoKey ELSE actual(candidates[SetMin(found)])

\* keys.find(k => lower === 'genres' || lower === 'genre'): row-key order
normalizeGenreKey(row) ==
    IF Falsy(row) THEN NoKey
    ELSE LET keys == Keys(row)
             hit == {i \in 1..Len(keys) : Lower(keys[i]) \in {"genres", "genre"}}
         IN IF hit = {} THEN NoKey ELSE keys[SetMin(hit)]

titleAliases == <<"title", "book_title", "name">>

yearAliases ==
    <<"publication_year", "published_year", "original_publication_year", "year",
      "publicationyear", "publicationYear">>

ratingAliases == <<"average_rating", "avg_rating", "rating", "rating_average">>

\* the two spellings normalizeGenreKey compares with, in the order it names them
genreAliases == <<"genres", "genre">>

(***************************************************************************)
(* Value coercion                                                          *)
(***************************************************************************)
isFiniteNumber(v) == v.t = "number" /\ IsFinite(v)

toNumber(v) ==
    LET n == IF v.t = "number" THEN v ELSE Number(v)
    IN IF IsFinite(n) THEN n ELSE Null

(***************************************************************************)
(* Categorical aggregator (GenreBarChart)                                  *)
(***************************************************************************)
\* !raw
FalsyValue(v) ==
    \/ v.t \in {"undefined", "null"}
    \/ v.t = "string" /\ v.s = <<>>
    \/ v.t = "boolean" /\ ~v.b
    \/ v.t = "number" /\ (v.k = "NaN" \/ (v.k = "finite" /\ v.n = 0))

\* String.prototype.split(',')
RECURSIVE Split(_)
Split(s) ==
    LET commas == {i \in 1..Len(s) : s[i] = ","}
    IN IF commas = {} THEN <<s>>
       ELSE LET p == SetMin(commas)
            IN <<SubSeq(s, 1, p - 1)>> \o Split(SubSeq(s, p + 1, Len(s)))

NonEmptyText(s) == s # <<>>

\* String(raw).split(',').map(d => d.trim()).filter(Boolean); the genre
\* column is loaded without auto-typing, so a truthy cell is text
GenreParts(raw) ==
    LET pieces == Split(raw.s)
    IN SelectSeq([i \in 1..Len(pieces) |-> Trim(pieces[i])], NonEmptyText)

\* counts.set(g, (counts.get(g) ?? 0) + 1): a Map keeps insertion order
CountInto(counts, g) ==
    IF \E i \in 1..Len(counts) : counts[i].genre = g
    THEN [i \in 1..Len(counts) |->
            IF counts[i].genre = g
            THEN [genre |-> g, count |-> counts[i].count + 1]
            ELSE counts[i]]
    ELSE Append(counts, [genre |-> g, count |-> 1])

RECURSIVE CountAll(_, _)
CountAll(counts, parts) ==
    IF parts = <<>> THEN counts
    ELSE CountAll(CountInto(counts, parts[1]), Tail(parts))

\* the loop over the rows
RECURSIVE GenreCounts(_, _, _)
GenreCounts(counts, rs, genreKey) ==
    IF rs = <<>> THEN counts
    ELSE LET raw == Get(rs[1], genreKey)
         IN GenreCounts(IF FalsyValue(raw) THEN counts
                        ELSE CountAll(counts, GenreParts(raw)),
                        Tail(rs), genreKey)

\* a sort that puts an element before the earlier elements of the same count
RECURSIVE SortByCountDescUnstable(_)
SortByCountDescUnstable(out) ==
    IF out = <<>> THEN <<>>
    ELSE LET rest == SortByCountDescUnstable(SubSeq(out, 1, Len(out) - 1))
             x == out[Len(out)]
             n == Cardinality({i \in 1..Len(rest) : rest[i].count > x.count})
         IN SubSeq(rest, 1, n) \o <<x>> \o SubSeq(rest, n + 1, Len(rest))

\* out.sort((a, b) => d3.descending(a.count, b.count)): Array.prototype.sort
\* is stable
RECURSIVE SortByCountDesc(_)
SortByCountDesc(out) ==
    IF out = <<>> THEN <<>>
    ELSE LET rest == SortByCountDesc(SubSeq(out, 1, Len(out) - 1))
             x == out[Len(out)]
             n == Cardinality({i \in 1..Len(rest) : rest[i].count >= x.count})
         IN SubSeq(rest, 1, n) \o <<x>> \o SubSeq(rest, n + 1, Len(rest))

\* Array.prototype.slice(0, end)
Slice0(seq, end) ==
    LET e == IF end < 0 THEN Len(seq) + end ELSE end
        n == IF e < 0 THEN 0 ELSE IF e > Len(seq) THEN Len(seq) ELSE e
    IN SubSeq(seq, 1, n)

aggregateGenres(rs, topN) ==
    IF Len(rs) = 0 THEN <<>>
    ELSE LET genreKey == normalizeGenreKey(rs[1])
         IN IF genreKey = NoKey THEN <<>>
            ELSE Slice0(SortByCountDesc(GenreCounts(<<>>, rs, genreKey)), topN)

(***************************************************************************)
(* Binning aggregator (RatingYearHeatmap)                                  *)
(***************************************************************************)
\* Math.floor(year / 10) * 10, on tenths
decadeOf(year) == (year \div 100) * 100

\* Math.round(Math.floor(rating / 0.5) * 0.5 * 10) / 10, on tenths
ratingBinOf(rating) == (rating \div 5) * 5

\* typeof bound === 'number' && Number.isFinite(bound)
IsBound(bound) == bound.t = "number" /\ IsFinite(bound)

\* the map callback of items: the item of a row, as a sequence of at most one
\* element (null is filtered out); the title of an item is not used again
HeatItem(r, yearKey, ratingKey, minYear, maxYear) ==
    LET year == toNumber(Get(r, yearKey))
        rating == toNumber(Get(r, ratingKey))
    IN IF year = Null \/ rating = Null THEN <<>>
       ELSE IF IsBound(minYear) /\ year.n < minYear.n THEN <<>>
       ELSE IF IsBound(maxYear) /\ year.n > maxYear.n THEN <<>>
       ELSE <<[decade |-> decadeOf(year.n), ratingBin |-> ratingBinOf(rating.n)]>>

\* rows.map(...).filter(Boolean)
RECURSIVE HeatItems(_, _, _, _, _)
HeatItems(rs, yearKey, ratingKey, minYear, maxYear) ==
    IF rs = <<>> THEN <<>>
    ELSE HeatItem(rs[1], yearKey, ratingKey, minYear, maxYear)
            \o HeatItems(Tail(rs), yearKey, ratingKey, minYear, maxYear)

\* Array.from(new Set(values)).sort(d3.ascending)
RECURSIVE SortedDistinct(_)
SortedDistinct(S) ==
    IF S = {} THEN <<>>
    ELSE <<SetMin(S)>> \o SortedDistinct(S \ {SetMin(S)})

\* counts.get(`${dec}|${bin}`) ?? 0
CellCount(items, dec, bin) ==
    Cardinality({i \in 1..Len(items) :
                    items[i].decade = dec /\ items[i].ratingBin = bin})

\* a grid that leaves out the cells no item falls in
HeatGridSparse(items, decades, ratingBins) ==
    LET nb == Len(ratingBins)
        full == [k \in 1..(Len(decades) * nb) |->
                   LET dec == decades[((k - 1) \div nb) + 1]
                       bin == ratingBins[((k - 1) % nb) + 1]
                   IN [decade |-> dec, ratingBin |-> bin,
                       count |-> CellCount(items, dec, bin)]]
        Seen(c) == c.count > 0
    IN SelectSeq(full, Seen)

\* for (const dec of decades) for (const bin of ratingBins) data.push(...)
HeatGrid(items, decades, ratingBins) ==
    LET nb == Len(ratingBins)
    IN [k \in 1..(Len(decades) * nb) |->
           LET dec == decades[((k - 1) \div nb) + 1]
               bin == ratingBins[((k - 1) % nb) + 1]
           IN [decade |-> dec, ratingBin |-> bin,
               count |-> CellCount(items, dec, bin)]]

EmptyHeat == [data |-> <<>>, decades |-> <<>>, ratingBins |-> <<>>, maxCount |-> 0]

\* the useMemo callback of RatingYearHeatmap
PreparedHeat(rs, minYear, maxYear) ==
    IF Len(rs) = 0 THEN EmptyHeat
    ELSE LET row0 == rs[1]
             yearKey == pickKey(row0, yearAliases)
             ratingKey == pickKey(row0, ratingAliases)
         IN IF yearKey = NoKey \/ ratingKey = NoKey THEN EmptyHeat
            ELSE LET items == HeatItems(rs, yearKey, ratingKey, minYear, maxYear)
                     decades == SortedDistinct({items[i].decade : i \in 1..Len(items)})
                     ratingBins ==
                         SortedDistinct({items[i].ratingBin : i \in 1..Len(items)})
                     data == HeatGrid(items, decades, ratingBins)
                 IN [data |-> data, decades |-> decades, ratingBins |-> ratingBins,
                     maxCount |-> IF data = <<>> THEN 0
                                  ELSE SetMax({data[k].count : k \in 1..Len(data)})]

(***************************************************************************)
(* Dimension selector and projection (ParallelCoords)                      *)
(***************************************************************************)
RECURSIVE SumSeq(_)
SumSeq(xs) == IF xs = <<>> THEN 0 ELSE xs[1] + SumSeq(Tail(xs))

\* the population variance mean((d - mean)^2) as the exact fraction
\* (n * sum(x^2) - sum(x)^2) / n^2; 0 for fewer than two values
variance(values) ==
    IF Len(values) < 2 THEN [num |-> 0, den |-> 1]
    ELSE LET n == Len(values)
             sum == SumSeq(values)
             squares == SumSeq([i \in 1..n |-> values[i] * values[i]])
         IN [num |-> n * squares - sum * sum, den |-> n * n]

\* a.var > b.var and a.var >= b.var on fractions
VarGreater(a, b) == a.num * b.den > b.num * a.den

VarAtLeast(a, b) == a.num * b.den >= b.num * a.den

preferredGroups ==
    << <<"publication_year", "publicationyear", "published_year",
         "original_publication_year", "year", "publicationYear">>,
       <<"average_rating", "rating_average", "avg_rating", "rating">>,
       <<"page_count", "pagecount", "pages", "pageCount">>,
       <<"ratings_count", "rating_count", "num_ratings", "ratingsCount">>,
       <<"swap_count", "swapcount", "exchange_count", "exchangecount", "swaps",
         "exchangeCount", "swapCount">>,
       <<"popularity_score", "popularityscore", "popularity", "score">> >>

excluded == {"id", "isbn"}

IsFiniteCell(v) == isFiniteNumber(v)

\* keys.filter(not excluded).filter(some row has a finite number)
numericCandidates(rs) ==
    LET keys == Keys(rs[1])
        Candidate(k) ==
            /\ Lower(k) \notin excluded
            /\ \E i \in 1..Len(rs) : isFiniteNumber(Get(rs[i], k))
    IN SelectSeq(keys, Candidate)

\* rows.map(r => r?.[k]).filter(isFiniteNumber), as the numbers themselves
ValidValues(rs, k) ==
    LET cells == SelectSeq([i \in 1..Len(rs) |-> Get(rs[i], k)], IsFiniteCell)
    IN [i \in 1..Len(cells) |-> cells[i].n]

\* the descriptors that survive validCount > 0 and missingRatio < 0.4
StatsStrict(rs) ==
    LET total == Len(rs)
        cand == numericCandidates(rs)
        all == [i \in 1..Len(cand) |->
                  LET values == ValidValues(rs, cand[i])
                  IN [key |-> cand[i], validCount |-> Len(values),
                      var |-> variance(values)]]
        Survives(d) ==
            /\ d.validCount > 0
            /\ 10 * (total - d.validCount) < 4 * total
    IN SelectSeq(all, Survives)

\* the descriptors that survive validCount > 0 and missingRatio <= 0.4, where
\* missingRatio = 1 - validCount / total
Stats(rs) ==
    LET total == Len(rs)
        cand == numericCandidates(rs)
        all == [i \in 1..Len(cand) |->
                  LET values == ValidValues(rs, cand[i])
                  IN [key |-> cand[i], validCount |-> Len(values),
                      var |-> variance(values)]]
        Survives(d) ==
            /\ d.validCount > 0
            /\ 10 * (total - d.validCount) <= 4 * total
    IN SelectSeq(all, Survives)

\* Array.from(keySet).find(k => k.toLowerCase() === alias.toLowerCase())
FindAlias(keys, alias) ==
    LET hit == {i \in 1..Len(keys) : Lower(keys[i]) = Lower(alias)}
    IN IF hit = {} THEN NoKey ELSE keys[SetMin(hit)]

\* the first alias of a group that finds a key: at most one pick, an empty
\* field name being falsy
GroupPick(keys, group) ==
    LET found == {j \in 1..Len(group) :
                     FindAlias(keys, group[j]) \notin {NoKey, ""}}
    IN IF found = {} THEN <<>> ELSE <<FindAlias(keys, group[SetMin(found)])>>

RECURSIVE Preferred(_, _)
Preferred(keys, groups) ==
    IF groups = <<>> THEN <<>>
    ELSE GroupPick(keys, groups[1]) \o Preferred(keys, Tail(groups))

\* the descriptors left in column order
KeepColumnOrder(stats) == stats

\* [...stats].sort((a, b) => d3.descending(a.var, b.var)): stable
RECURSIVE SortByVarDesc(_)
SortByVarDesc(stats) ==
    IF stats = <<>> THEN <<>>
    ELSE LET rest == SortByVarDesc(SubSeq(stats, 1, Len(stats) - 1))
             x == stats[Len(stats)]
             n == Cardinality({i \in 1..Len(rest) : VarAtLeast(rest[i].var, x.var)})
         IN SubSeq(rest, 1, n) \o <<x>> \o SubSeq(rest, n + 1, Len(rest))

\* for (const k of list) if (!combined.includes(k)) combined.push(k)
RECURSIVE PushNew(_, _)
PushNew(combined, list) ==
    IF list = <<>> THEN combined
    ELSE PushNew(IF \E i \in 1..Len(combined) : combined[i] = list[1]
                 THEN combined ELSE Append(combined, list[1]),
                 Tail(list))

Combined(rs) ==
    LET stats == Stats(rs)
        keys == [i \in 1..Len(stats) |-> stats[i].key]
        sorted == SortByVarDesc(stats)
        byVar == [i \in 1..Len(sorted) |-> sorted[i].key]
    IN PushNew(PushNew(<<>>, Preferred(keys, preferredGroups)), byVar)

Max2(a, b) == IF a > b THEN a ELSE b

Min2(a, b) == IF a < b THEN a ELSE b

\* the selection without the ceiling of maxDims
SelectDimsNoCeiling(combined, maxDims, minDims) ==
    LET all == combined
    IN IF Len(all) < minDims THEN Slice0(combined, Min2(minDims, Len(combined)))
       ELSE all

\* maxPick, dims and the two corrections of dims
SelectDims(combined, maxDims, minDims) ==
    LET maxPick == Max2(1, Min2(maxDims, Len(combined)))
        d1 == Slice0(combined, maxPick)
        d2 == IF Len(d1) > maxDims THEN Slice0(d1, maxDims) ELSE d1
    IN IF Len(d2) < minDims THEN Slice0(combined, Min2(minDims, Len(combined)))
       ELSE d2

\* String(r?.[titleKey] ?? ''), the title column being text or empty
TitleOf(r, titleKey) ==
    IF titleKey = NoKey THEN <<>>
    ELSE LET v == Get(r, titleKey)
         IN IF v.t \in {"undefined", "null"} THEN <<>> ELSE v.s

\* the record of row i: raw refers to rows[i]
Project(rs, i, dims, titleKey) ==
    LET r == rs[i]
    IN [raw |-> i,
        title |-> TitleOf(r, titleKey),
        values |-> [j \in 1..Len(dims) |->
                      IF isFiniteNumber(Get(r, dims[j])) THEN Get(r, dims[j]) ELSE Null],
        missing |-> Cardinality({j \in 1..Len(dims) :
                                    ~isFiniteNumber(Get(r, dims[j]))})]

\* the projection that keeps every row
ProjectionKeepAll(rs, dims, titleKey, maxLines) ==
    LET recs == [i \in 1..Len(rs) |-> Project(rs, i, dims, titleKey)]
    IN IF IsBound(maxLines) /\ maxLines.n > 0 /\ Len(recs) * 10 > maxLines.n
       THEN Slice0(recs, maxLines.n \div 10)
       ELSE recs

\* rows.map(...).filter(r => r.__missing <= Math.floor(dims.length / 2)), then
\* the cap: Number.isFinite(maxLines) && maxLines > 0 && data.length > maxLines
Projection(rs, dims, titleKey, maxLines) ==
    LET recs == [i \in 1..Len(rs) |-> Project(rs, i, dims, titleKey)]
        Kept(rec) == rec.missing <= Len(dims) \div 2
        data == SelectSeq(recs, Kept)
    IN IF IsBound(maxLines) /\ maxLines.n > 0 /\ Len(data) * 10 > maxLines.n
       THEN Slice0(data, maxLines.n \div 10)
       ELSE data

EmptyPC == [dims |-> <<>>, data |-> <<>>, titleKey |-> NoKey]

\* the useMemo callback of ParallelCoords; Array.from(new Set(dims)) is dims,
\* combined having no duplicates
PreparedPC(rs, maxDims, minDims, maxLines) ==
    IF Len(rs) = 0 THEN EmptyPC
    ELSE LET titleKey == pickKey(rs[1], titleAliases)
             dims == SelectDims(Combined(rs), maxDims, minDims)
         IN [dims |-> dims,
             data |-> Projection(rs, dims, titleKey, maxLines),
             titleKey |-> titleKey]

(***************************************************************************)
(* Variables a specification leaves alone                                  *)
(***************************************************************************)
aggVars == <<chart, rows, config, prepared>>
callVars == <<arg, ret>>
lifeVars == <<mounted, cancelled, load, width, dirty, container, tooltip, draws>>

NoProps == [none |-> TRUE]

\* no tooltip: tooltipRef.current is null, no tooltip element of the instance
\* is in the page, and no cleanup of the draw effect is registered
NoTooltip == [ref |-> FALSE, live |-> 0, cleanup |-> FALSE]

AggIdle ==
    /\ chart = "none" /\ rows = <<>> /\ config = NoProps /\ prepared = <<>>

CallIdle == arg = Null /\ ret = Null

LifeIdle ==
    /\ mounted = FALSE /\ cancelled = FALSE /\ load = "none"
    /\ width = 0 /\ dirty = {} /\ container = <<>> /\ tooltip = NoTooltip
    /\ draws = 0

(***************************************************************************)
(* SpecCoerce: the two coercion helpers applied to every cell value        *)
(***************************************************************************)
MaxTextLen == 3

TextChars == {"4", "5", ".", "-", " ", "a"}

RECURSIVE TextsUpTo(_)
TextsUpTo(n) ==
    IF n = 0 THEN {<<>>}
    ELSE LET shorter == TextsUpTo(n - 1)
         IN shorter \cup {Append(s, c) : s \in shorter, c \in TextChars}

CoerceNums == {0, 5, 36, 0 - 45, 19950}

CoerceCells ==
    {Undef, Null, NaNv, Infv, Bool(TRUE), Bool(FALSE)}
        \cup {Num(n) : n \in CoerceNums}
        \cup {Str(s) : s \in TextsUpTo(MaxTextLen)}

InitCoerce ==
    /\ arg \in CoerceCells
    /\ ret = Null
    /\ pc = "call"
    /\ AggIdle /\ LifeIdle

\* RatingYearHeatmap.jsx: toNumber(r?.[key])
CallToNumber ==
    /\ pc = "call"
    /\ ret' = toNumber(arg)
    /\ pc' = "toNumber"
    /\ UNCHANGED <<arg, aggVars, lifeVars>>

\* ParallelCoords.jsx: rec[d] = isFiniteNumber(v) ? v : null
CallIsFiniteNumber ==
    /\ pc = "call"
    /\ ret' = IF isFiniteNumber(arg) THEN arg ELSE Null
    /\ pc' = "isFiniteNumber"
    /\ UNCHANGED <<arg, aggVars, lifeVars>>

NextCoerce == CallToNumber \/ CallIsFiniteNumber

SpecCoerce == InitCoerce /\ [][NextCoerce]_vars

\* what a cell represents: an already finite number, or non-empty text that
\* reads as a decimal number
NumericLooking(v) ==
    v.t = "string" /\ Trim(v.s) # <<>> /\ IsFinite(StringToNumber(v.s))

RepresentsNumber(v) == isFiniteNumber(v) \/ NumericLooking(v)

ValueOf(v) == IF v.t = "string" THEN StringToNumber(v.s) ELSE v

\* C2: value coercion returns the numeric value of every finite number and
\* every numeric-looking text, and the invalid marker (null) for every other
\* cell value; so it never returns zero for a cell that does not represent
\* zero.
C2_CoercionExact ==
    pc \in {"toNumber", "isFiniteNumber"} =>
        ret = (IF RepresentsNumber(arg) THEN ValueOf(arg) ELSE Null)

(***************************************************************************)
(* SpecResolve: the column resolvers applied to a sample row               *)
(***************************************************************************)
MaxKeys == 3

ResolverNames ==
    {"genre", "Genres", "title", "Title", "name", "year", "Year",
     "publication_year", "rating", "average_rating", "id"}

RECURSIVE KeyListsUpTo(_)
KeyListsUpTo(n) ==
    IF n = 0 THEN {<<>>}
    ELSE LET shorter == KeyListsUpTo(n - 1)
         IN shorter \cup
            {Append(s, k) : s \in shorter,
                            k \in ResolverNames}

Distinct(s) == \A i, j \in 1..Len(s) : s[i] = s[j] => i = j

SampleRows ==
    {Undef} \cup
    {Obj([i \in 1..Len(ks) |-> <<ks[i], Null>>]) :
        ks \in {s \in KeyListsUpTo(MaxKeys) : Distinct(s)}}

AliasLists == {titleAliases, yearAliases, ratingAliases, genreAliases}

InitResolve ==
    /\ arg \in [row : SampleRows, candidates : AliasLists]
    /\ ret = NoKey
    /\ pc = "call"
    /\ AggIdle /\ LifeIdle

\* pickKey(row0, [...]) in RatingYearHeatmap.jsx and ParallelCoords.jsx
CallPickKey ==
    /\ pc = "call"
    /\ arg.candidates # genreAliases
    /\ ret' = pickKey(arg.row, arg.candidates)
    /\ pc' = "resolved"
    /\ UNCHANGED <<arg, aggVars, lifeVars>>

\* normalizeGenreKey(rows[0]) in GenreBarChart
CallNormalizeGenreKey ==
    /\ pc = "call"
    /\ arg.candidates = genreAliases
    /\ ret' = normalizeGenreKey(arg.row)
    /\ pc' = "resolved"
    /\ UNCHANGED <<arg, aggVars, lifeVars>>

NextResolve == CallPickKey \/ CallNormalizeGenreKey

SpecResolve == InitResolve /\ [][NextResolve]_vars

\* the fields of a row matching an alias, and the aliases some field matches
FieldsMatching(row, alias) ==
    IF Falsy(row) THEN {}
    ELSE {Keys(row)[i] : i \in {j \in 1..Len(row.f) : Lower(Keys(row)[j]) = alias}}

MatchedAliases(row, candidates) ==
    {j \in 1..Len(candidates) : FieldsMatching(row, candidates[j]) # {}}

\* C8: the column resolver returns a field of the row matching the earliest
\* alias (in alias-list order, whatever the order of the row's fields) that
\* any field matches, and no match when the row is absent, has no fields or
\* no field matches.
C8_AliasOrder ==
    pc = "resolved" =>
        LET m == MatchedAliases(arg.row, arg.candidates)
        IN IF m = {} THEN ret = NoKey
           ELSE ret \in FieldsMatching(arg.row, arg.candidates[SetMin(m)])

(***************************************************************************)
(* SpecGenre: the categorical aggregator on every small dataset            *)
(***************************************************************************)
MaxGenreRows == 3

MaxTopN == 3

\* cells of the genre column: "", "F", "D", "F, D", " ,G", "D,D ,"
GenreTexts ==
    {<<>>, <<"F">>, <<"D">>, <<"F", ",", " ", "D">>, <<" ", ",", "G">>,
     <<"D", ",", "D", " ", ",">>}

\* the header of the dataset: the genre column under two spellings, or none
GenreHeaders == {"genre", "Genres", "title"}

RECURSIVE SeqsUpTo(_, _)
SeqsUpTo(S, n) ==
    IF n = 0 THEN {<<>>}
    ELSE LET shorter == SeqsUpTo(S, n - 1)
         IN shorter \cup {Append(s, x) : s \in shorter, x \in S}

GenreDatasets ==
    {[i \in 1..Len(ts) |-> Obj(<<<<h, Str(ts[i])>>>>)] :
        h \in GenreHeaders, ts \in SeqsUpTo(GenreTexts, MaxGenreRows)}

InitGenre ==
    /\ chart = "genre"
    /\ rows \in GenreDatasets
    /\ config \in [topN : 1..MaxTopN]
    /\ prepared = <<>>
    /\ pc = "rows"
    /\ CallIdle /\ LifeIdle

\* useMemo(() => aggregateGenres(rows, topN), [rows, topN])
AggregateGenres ==
    /\ pc = "rows"
    /\ chart = "genre"
    /\ prepared' = aggregateGenres(rows, config.topN)
    /\ pc' = "aggregated"
    /\ UNCHANGED <<chart, rows, config, callVars, lifeVars>>

NextGenre == AggregateGenres

SpecGenre == InitGenre /\ [][NextGenre]_vars

\* every trimmed non-empty comma-separated piece of the genre column, row by
\* row, when the column resolves
RECURSIVE PieceStream(_, _)
PieceStream(rs, key) ==
    IF rs = <<>> THEN <<>>
    ELSE LET raw == Get(rs[1], key)
         IN (IF raw.t = "string" THEN GenreParts(raw) ELSE <<>>)
                \o PieceStream(Tail(rs), key)

GenrePieces ==
    IF rows = <<>> \/ normalizeGenreKey(rows[1]) = NoKey THEN <<>>
    ELSE PieceStream(rows, normalizeGenreKey(rows[1]))

PieceCount(g) == Cardinality({i \in 1..Len(GenrePieces) : GenrePieces[i] = g})

FirstSeen(g) == SetMin({i \in 1..Len(GenrePieces) : GenrePieces[i] = g})

Categories == {GenrePieces[i] : i \in 1..Len(GenrePieces)}

RanksBefore(g, h) ==
    \/ PieceCount(g) > PieceCount(h)
    \/ PieceCount(g) = PieceCount(h) /\ FirstSeen(g) < FirstSeen(h)

\* C7: aggregateGenres returns the min(topN, distinct categories) categories
\* of highest count, by count descending with ties in order of first
\* occurrence; each count is >= 1 and is the number of trimmed non-empty
\* pieces equal to the category; an empty dataset or an unresolved genre
\* column gives the empty list.
C7_TopGenres ==
    pc = "aggregated" =>
        LET out == prepared
            n == Cardinality(Categories)
            shown == {out[i].genre : i \in 1..Len(out)}
        IN /\ Len(out) = (IF config.topN < n THEN config.topN ELSE n)
           /\ \A i \in 1..Len(out) :
                /\ out[i].genre \in Categories
                /\ out[i].count = PieceCount(out[i].genre)
                /\ out[i].count >= 1
           /\ \A i, j \in 1..Len(out) :
                i < j => RanksBefore(out[i].genre, out[j].genre)
           /\ \A g \in Categories \ shown :
                \A i \in 1..Len(out) : RanksBefore(out[i].genre, g)
           /\ (rows = <<>> \/ normalizeGenreKey(rows[1]) = NoKey) => out = <<>>

\* a tie in the counts is cut by topN: a category stays out that has the
\* count of one that is shown
C7_Witness ==
    /\ pc = "aggregated"
    /\ Len(prepared) = config.topN
    /\ \E g \in Categories :
        /\ \A i \in 1..Len(prepared) : prepared[i].genre # g
        /\ PieceCount(g) = prepared[Len(prepared)].count
    /\ \E i \in 1..Len(prepared) : prepared[i].count >= 2

(***************************************************************************)
(* SpecHeat: the binning aggregator on every small dataset                 *)
(***************************************************************************)
MaxHeatRows == 3

\* <<year cell, rating cell>> of a row, as d3.autoType leaves them: numbers,
\* null for an empty cell, NaN, text
HeatCells ==
    {<<Num(19950), Num(32)>>,
     <<Num(20010), Num(36)>>,
     <<Num(20040), Num(49)>>,
     <<Num(19950), Null>>,
     <<Null, Num(40)>>,
     <<Num(18500), Num(36)>>,
     <<NaNv, Num(36)>>,
     <<Num(20040), Str(<<"a">>)>>}

\* the header: year and rating columns that resolve, or no rating column
HeatHeaders == {<<"Year", "average_rating">>, <<"Year", "score">>}

HeatDatasets ==
    {[i \in 1..Len(cs) |-> Obj(<<<<h[1], cs[i][1]>>, <<h[2], cs[i][2]>>>>)] :
        h \in HeatHeaders, cs \in SeqsUpTo(HeatCells, MaxHeatRows)}

\* minYear = 1900 by default, maxYear = null by default
HeatProps == [minYear : {Num(19000), Null}, maxYear : {Null, Num(20010)}]

InitHeat ==
    /\ chart = "heatmap"
    /\ rows \in HeatDatasets
    /\ config \in HeatProps
    /\ prepared = EmptyHeat
    /\ pc = "rows"
    /\ CallIdle /\ LifeIdle

\* const prepared = useMemo(...)
PrepareHeat ==
    /\ pc = "rows"
    /\ chart = "heatmap"
    /\ prepared' = PreparedHeat(rows, config.minYear, config.maxYear)
    /\ pc' = "aggregated"
    /\ UNCHANGED <<chart, rows, config, callVars, lifeVars>>

NextHeat == PrepareHeat

SpecHeat == InitHeat /\ [][NextHeat]_vars

HeatResolved ==
    /\ rows # <<>>
    /\ pickKey(rows[1], yearAliases) # NoKey
    /\ pickKey(rows[1], ratingAliases) # NoKey

\* a row both of whose cells represent a number, the year within the
\* inclusive range of the configuration
RowInRange(r) ==
    LET y == Get(r, pickKey(rows[1], yearAliases))
        g == Get(r, pickKey(rows[1], ratingAliases))
    IN /\ RepresentsNumber(y) /\ RepresentsNumber(g)
       /\ IsBound(config.minYear) => ValueOf(y).n >= config.minYear.n
       /\ IsBound(config.maxYear) => ValueOf(y).n <= config.maxYear.n

RECURSIVE SumCounts(_)
SumCounts(data) ==
    IF data = <<>> THEN 0 ELSE data[1].count + SumCounts(Tail(data))

\* C1: a row is counted in one cell exactly when its year and rating cells
\* both represent a finite number and the year is in [minYear, maxYear]; a
\* row with an absent, null, empty or non-numeric year or rating is counted
\* nowhere: every cell counts the valid in-range rows of its decade and
\* rating bucket, and the counts sum to the number of those rows.
C1_CountsValidRows ==
    (pc = "aggregated" /\ HeatResolved) =>
        LET valid == {i \in 1..Len(rows) : RowInRange(rows[i])}
            Year(i) == ValueOf(Get(rows[i], pickKey(rows[1], yearAliases))).n
            Rating(i) == ValueOf(Get(rows[i], pickKey(rows[1], ratingAliases))).n
        IN /\ SumCounts(prepared.data) = Cardinality(valid)
           /\ \A k \in 1..Len(prepared.data) :
                prepared.data[k].count =
                    Cardinality({i \in valid :
                        /\ decadeOf(Year(i)) = prepared.data[k].decade
                        /\ ratingBinOf(Rating(i)) = prepared.data[k].ratingBin})

\* the decades and rating buckets of the rows the aggregator kept
ObservedItems ==
    HeatItems(rows, pickKey(rows[1], yearAliases), pickKey(rows[1], ratingAliases),
              config.minYear, config.maxYear)

ObservedDecades == {ObservedItems[i].decade : i \in 1..Len(ObservedItems)}

ObservedBins == {ObservedItems[i].ratingBin : i \in 1..Len(ObservedItems)}

\* C3: the grid is dense: |observed decades| x |observed rating buckets|
\* cells, every pair of the two observed domains exactly once (zero counts
\* included), decades ascending and rating buckets ascending within a decade.
C3_DenseGrid ==
    (pc = "aggregated" /\ HeatResolved) =>
        LET data == prepared.data
        IN /\ Len(data) = Cardinality(ObservedDecades) * Cardinality(ObservedBins)
           /\ \A d \in ObservedDecades : \A b \in ObservedBins :
                Cardinality({k \in 1..Len(data) :
                    data[k].decade = d /\ data[k].ratingBin = b}) = 1
           /\ \A k \in 1..Len(data) :
                data[k].decade \in ObservedDecades /\ data[k].ratingBin \in ObservedBins
           /\ \A k, l \in 1..Len(data) :
                k < l => \/ data[k].decade < data[l].decade
                         \/ /\ data[k].decade = data[l].decade
                            /\ data[k].ratingBin < data[l].ratingBin

\* a grid of two decades and two rating buckets at least, one cell empty
C3_Witness ==
    /\ pc = "aggregated"
    /\ Len(prepared.decades) >= 2
    /\ Len(prepared.ratingBins) >= 2
    /\ \E k \in 1..Len(prepared.data) : prepared.data[k].count = 0
    /\ \E k \in 1..Len(prepared.data) : prepared.data[k].count >= 1

(***************************************************************************)
(* SpecPC: the dimension selector and the projection on every small        *)
(* dataset                                                                 *)
(***************************************************************************)
MaxPCRows == 3

MaxDimsBound == 3

PCHeader == <<"id", "Title", "Year", "publication_year", "weight", "swaps">>

\* the cells of a row under PCHeader, as d3.autoType leaves them (years
\* counted from 1900, which leaves every variance comparison as it is)
PCCells ==
    {<<Num(10), Str(<<"A">>), Num(950), Num(950), Num(300), Num(70)>>,
     <<Num(20), Str(<<"B">>), Num(990), Num(970), Num(100), Num(70)>>,
     <<Num(30), Str(<<"C">>), Null, Num(990), Null, Num(20)>>,
     <<Num(40), Null, Num(970), Str(<<"a">>), NaNv, Null>>,
     <<Num(50), Str(<<"E">>), Null, Null, Null, Null>>}

PCDatasets ==
    {[i \in 1..Len(cs) |->
        Obj([j \in 1..Len(PCHeader) |-> <<PCHeader[j], cs[i][j]>>])] :
        cs \in SeqsUpTo(PCCells, MaxPCRows)}

\* maxDims = 6, minDims = 4, maxLines = 550 by default; maxLines 0 is no cap
PCProps ==
    [maxDims : 0..MaxDimsBound, minDims : 0..MaxDimsBound,
     maxLines : {Num(0), Num(10), Num(20)}]

InitPC ==
    /\ chart = "parallel"
    /\ rows \in PCDatasets
    /\ config \in PCProps
    /\ prepared = EmptyPC
    /\ pc = "rows"
    /\ CallIdle /\ LifeIdle

\* const prepared = useMemo(...)
PreparePC ==
    /\ pc = "rows"
    /\ chart = "parallel"
    /\ prepared' = PreparedPC(rows, config.maxDims, config.minDims, config.maxLines)
    /\ pc' = "aggregated"
    /\ UNCHANGED <<chart, rows, config, callVars, lifeVars>>

NextPC == PreparePC

SpecPC == InitPC /\ [][NextPC]_vars

\* the surviving numeric candidates: columns not excluded, with a finite
\* number in one row at least and in 60% of the rows at least
ValidRows(k) == {i \in 1..Len(rows) : isFiniteNumber(Get(rows[i], k))}

Surviving ==
    IF rows = <<>> THEN {}
    ELSE {k \in {Keys(rows[1])[i] : i \in 1..Len(rows[1].f)} :
            /\ Lower(k) \notin {"id", "isbn"}
            /\ ValidRows(k) # {}
            /\ 10 * (Len(rows) - Cardinality(ValidRows(k))) <= 4 * Len(rows)}

\* C4: with minDims <= maxDims the selected set has at most maxDims
\* dimensions, at most as many as there are surviving candidates, and at
\* least minDims whenever that many candidates survive.
C4_DimsBounded ==
    (pc = "aggregated" /\ config.minDims <= config.maxDims) =>
        /\ Len(prepared.dims) <= config.maxDims
        /\ Len(prepared.dims) <= Cardinality(Surviving)
        /\ Cardinality(Surviving) >= config.minDims =>
              Len(prepared.dims) >= config.minDims

\* more candidates survive than maxDims allows, and the floor is positive
C4_Witness ==
    /\ pc = "aggregated"
    /\ 1 <= config.minDims /\ config.minDims < config.maxDims
    /\ Cardinality(Surviving) > config.maxDims
    /\ Len(prepared.dims) = config.maxDims

\* C5: a non-empty dataset without a surviving numeric candidate gives an
\* empty dimension set and an empty projection: no record for any row.
C5_EmptyProjection ==
    (pc = "aggregated" /\ rows # <<>> /\ Surviving = {}) =>
        /\ prepared.dims = <<>>
        /\ prepared.data = <<>>

\* the number of selected dimensions for which row i has no finite number
MissingOf(i) ==
    Cardinality({j \in 1..Len(prepared.dims) :
                    ~isFiniteNumber(Get(rows[i], prepared.dims[j]))})

Majority(i) == MissingOf(i) <= Len(prepared.dims) \div 2

Retained(i) == \E n \in 1..Len(prepared.data) : prepared.data[n].raw = i

\* every record is a row of the input with a number or null for every
\* selected dimension, and the records keep the order of the rows
RecordsWhole ==
    LET data == prepared.data
    IN /\ \A n \in 1..Len(data) :
            /\ data[n].raw \in 1..Len(rows)
            /\ Len(data[n].values) = Len(prepared.dims)
            /\ \A j \in 1..Len(prepared.dims) :
                 LET v == Get(rows[data[n].raw], prepared.dims[j])
                 IN data[n].values[j] = (IF isFiniteNumber(v) THEN v ELSE Null)
       /\ \A n, m \in 1..Len(data) : n < m => data[n].raw < data[m].raw

\* C6 as stated: a row is retained exactly when at most floor(n/2) of its
\* selected cells are invalid; records are whole and in row order, and no
\* dropped row appears.
C6_RetainedIffMajority ==
    pc = "aggregated" =>
        /\ \A i \in 1..Len(rows) : Retained(i) <=> Majority(i)
        /\ RecordsWhole

CapActive ==
    /\ IsBound(config.maxLines) /\ config.maxLines.n > 0
    /\ Cardinality({i \in 1..Len(rows) : Majority(i)}) * 10 > config.maxLines.n

\* C6 amended: a row is retained exactly when at most floor(n/2) of its
\* selected cells are invalid and, where a positive finite maxLines is
\* exceeded by the number of such rows, it is one of the first maxLines of
\* them; records are whole and in row order.
C6_RetainedIffMajorityWithinCap ==
    pc = "aggregated" =>
        /\ \A i \in 1..Len(rows) :
             Retained(i) <=>
                /\ Majority(i)
                /\ CapActive =>
                     Cardinality({h \in 1..i : Majority(h)}) * 10 <= config.maxLines.n
        /\ RecordsWhole

\* a dataset with a row dropped by the majority rule, a row kept with a null
\* cell, and a row cut by the cap
C6_Witness ==
    /\ pc = "aggregated"
    /\ Len(prepared.dims) >= 2
    /\ \E i \in 1..Len(rows) : ~Majority(i)
    /\ \E n \in 1..Len(prepared.data) :
         \E j \in 1..Len(prepared.dims) : prepared.data[n].values[j] = Null
    /\ \E i \in 1..Len(rows) : Majority(i) /\ ~Retained(i)

\* the place of a column in the rows, and the variance of its valid values
ColOf(k) == SetMin({i \in 1..Len(rows[1].f) : Keys(rows[1])[i] = k})

VarianceOf(k) == variance([i \in 1..Cardinality(ValidRows(k)) |->
                LET at == {r \in ValidRows(k) :
                             Cardinality({q \in ValidRows(k) : q <= r}) = i}
                IN Get(rows[SetMin(at)], k).n])

\* among the surviving candidates surv, the one that group g prefers: the
\* first in column order among those that match, in any letter case, the
\* earliest alias of the group that matches one at all
PickOf(surv, g) ==
    LET group == preferredGroups[g]
        Matches(j) == {k \in surv : Lower(k) = Lower(group[j])}
        hits == {j \in 1..Len(group) : Matches(j) # {}}
    IN IF hits = {} THEN NoKey
       ELSE CHOOSE k \in Matches(SetMin(hits)) :
                \A other \in Matches(SetMin(hits)) : ColOf(k) <= ColOf(other)

Picked(k) == k # NoKey

PreferredPicks(surv) ==
    SelectSeq([g \in 1..Len(preferredGroups) |-> PickOf(surv, g)], Picked)

\* a candidate of variance v in column c comes before one of variance w in
\* column e among the candidates no group prefers
VarianceBefore(v, c, w, e) ==
    \/ VarGreater(v, w)
    \/ ~VarGreater(w, v) /\ c < e

\* C14: the selected dimensions are a duplicate-free prefix of the combined
\* priority ordering: first the pick of each preference group in the fixed
\* order of the groups, one surviving candidate per group at most, the one
\* that matches the earliest alias of the group in any letter case; then the
\* other surviving candidates by descending variance, ties in column order.
\* No candidate outside the picks is selected while a pick is left out.
C14_PriorityPrefix ==
    pc = "aggregated" =>
        LET d == prepared.dims
            surv == Surviving
            picks == PreferredPicks(surv)
            pickSet == {picks[i] : i \in 1..Len(picks)}
            var == [k \in surv |-> VarianceOf(k)]
        IN /\ \A i, j \in 1..Len(d) : i # j => d[i] # d[j]
           /\ \A i \in 1..Len(d) : d[i] \in surv
           /\ \A i \in 1..Len(d) :
                IF i <= Len(picks) THEN d[i] = picks[i]
                ELSE /\ d[i] \notin pickSet
                     /\ \A k \in surv \ pickSet :
                          (k # d[i] /\ \A h \in 1..(i - 1) : d[h] # k) =>
                              VarianceBefore(var[d[i]], ColOf(d[i]), var[k], ColOf(k))
           /\ (\E i \in 1..Len(d) : d[i] \notin pickSet) =>
                  pickSet \subseteq {d[i] : i \in 1..Len(d)}

\* both groups with a surviving match are picked first, publication_year
\* before Year, which matches a later alias of the same group; of the two
\* candidates left, weight, of the greater variance, is selected before
\* Year, which comes first in column order
C14_Witness ==
    /\ pc = "aggregated"
    /\ {"Year", "publication_year", "weight", "swaps"} \subseteq Surviving
    /\ prepared.dims = <<"publication_year", "swaps", "weight">>
    /\ VarGreater(VarianceOf("weight"), VarianceOf("Year"))

\* Year and weight of the same variance: Year, first in column order, is
\* selected
C14_WitnessTie ==
    /\ pc = "aggregated"
    /\ {"Year", "publication_year", "weight", "swaps"} \subseteq Surviving
    /\ prepared.dims = <<"publication_year", "swaps", "Year">>
    /\ ~VarGreater(VarianceOf("weight"), VarianceOf("Year"))
    /\ ~VarGreater(VarianceOf("Year"), VarianceOf("weight"))

\* Year is the pick of its group when publication_year does not survive
C14_WitnessLaterAlias ==
    /\ pc = "aggregated"
    /\ "publication_year" \notin Surviving
    /\ ValidRows("publication_year") # {}
    /\ Len(prepared.dims) >= 1
    /\ prepared.dims[1] = "Year"

(***************************************************************************)
(* SpecCand: the survival of numeric candidates on datasets of up to       *)
(* MaxCandRows rows, by the number of rows in which a column is valid      *)
(***************************************************************************)
MaxCandRows == 10

CandHeader == <<"ISBN", "weight", "swaps">>

\* what d3.autoType leaves in a cell that holds no finite number
CandBad == {Null, NaNv, Str(<<"a">>)}

\* a dataset of n rows: ISBN is a number in every row, weight in the first a
\* rows and swaps in the last b rows
CandRows(n, a, b, bad) ==
    [i \in 1..n |->
        Obj(<<<<CandHeader[1], Num(10 * i)>>,
              <<CandHeader[2], IF i <= a THEN Num(10 * i) ELSE bad>>,
              <<CandHeader[3], IF i > n - b THEN Num(10) ELSE bad>>>>)]

CandDatasets ==
    {CandRows(n, a, b, bad) :
        n \in 1..MaxCandRows, a \in 0..MaxCandRows, b \in 0..MaxCandRows,
        bad \in CandBad}

\* <ParallelCoords height={255} maxDims={6} minDims={4} maxLines={550} />
InitCand ==
    /\ chart = "parallel"
    /\ rows \in CandDatasets
    /\ config = [maxDims |-> 6, minDims |-> 4, maxLines |-> Num(5500)]
    /\ prepared = EmptyPC
    /\ pc = "rows"
    /\ CallIdle /\ LifeIdle

SpecCand == InitCand /\ [][NextPC]_vars

ValidShare(k, percent) == 100 * Cardinality(ValidRows(k)) = percent * Len(rows)

CandColumns == {Keys(rows[1])[i] : i \in 1..Len(rows[1].f)}

\* C11: a column is a selected numeric candidate exactly when its name is
\* not id or isbn in any letter case, at least one row holds a valid number
\* for it, and its missing ratio 1 - validCount / totalRows is at most 0.4;
\* a column valid in 70% or in exactly 60% of the rows is accepted and one
\* valid in 50% of the rows is rejected
C11_CandidateSurvival ==
    pc = "aggregated" =>
        LET dims == {prepared.dims[i] : i \in 1..Len(prepared.dims)}
        IN /\ dims = Surviving
           /\ \A k \in CandColumns :
                /\ Lower(k) \in {"id", "isbn"} => k \notin dims
                /\ Lower(k) \notin {"id", "isbn"} =>
                     /\ ValidShare(k, 70) => k \in dims
                     /\ ValidShare(k, 60) => k \in dims
                     /\ ValidShare(k, 50) => k \notin dims

\* ten rows with weight valid in six of them and swaps in five: weight is
\* selected, swaps is not, and neither is ISBN, valid in every row
C11_Witness ==
    /\ pc = "aggregated"
    /\ Len(rows) = 10
    /\ ValidShare("weight", 60) /\ ValidShare("swaps", 50) /\ ValidShare("ISBN", 100)
    /\ prepared.dims = <<"weight">>

\* ten rows with swaps valid in seven of them: swaps is selected
C11_WitnessSeventy ==
    /\ pc = "aggregated"
    /\ Len(rows) = 10
    /\ ValidShare("swaps", 70)
    /\ "swaps" \in {prepared.dims[i] : i \in 1..Len(prepared.dims)}

(***************************************************************************)
(* SpecLife: a mounted chart instance: load, resize, render, teardown      *)
(***************************************************************************)
MaxWidth == 2

MaxDraws == 2

LifeCharts == {"genre", "heatmap", "parallel"}

\* the props App.tsx passes, and the defaults of the others
DefaultProps(c) ==
    CASE c = "genre" -> [topN |-> 10]
      [] c = "heatmap" -> [minYear |-> Num(19000), maxYear |-> Null]
      [] c = "parallel" -> [maxDims |-> 6, minDims |-> 4, maxLines |-> Num(5500)]

\* the aggregate of the first render, rows being []
EmptyAggregate(c) ==
    CASE c = "genre" -> <<>>
      [] c = "heatmap" -> EmptyHeat
      [] c = "parallel" -> EmptyPC

\* the useMemo callback of the component
Aggregate(c, rs, props) ==
    CASE c = "genre" -> aggregateGenres(rs, props.topN)
      [] c = "heatmap" -> PreparedHeat(rs, props.minYear, props.maxYear)
      [] c = "parallel" ->
            PreparedPC(rs, props.maxDims, props.minDims, props.maxLines)

\* the props a parent may pass: those of App.tsx and one other configuration
LifeProps(c) ==
    CASE c = "genre" -> {[topN |-> 10], [topN |-> 1]}
      [] c = "heatmap" ->
            {[minYear |-> Num(19000), maxYear |-> Null],
             [minYear |-> Num(20000), maxYear |-> Null]}
      [] c = "parallel" ->
            {[maxDims |-> 6, minDims |-> 4, maxLines |-> Num(5500)],
             [maxDims |-> 1, minDims |-> 1, maxLines |-> Num(10)]}

\* the dependency list of the useMemo of the component
MemoDeps(c) ==
    CASE c = "genre" -> {"rows", "props"}
      [] c = "heatmap" -> {"rows"}
      [] c = "parallel" -> {"rows", "props"}

\* what d3.csv may resolve with: a dataset the chart can draw, and one whose
\* aggregate has nothing to draw
GenreRow(h, text) == Obj(<<<<h, Str(text)>>>>)

HeatRow(h, cells) == Obj(<<<<h[1], cells[1]>>, <<h[2], cells[2]>>>>)

PCRow(cells) == Obj([j \in 1..Len(PCHeader) |-> <<PCHeader[j], cells[j]>>])

LoadableDatasets(c) ==
    CASE c = "genre" ->
            {<<GenreRow("Genres", <<"F", ",", " ", "D">>), GenreRow("Genres", <<"D">>)>>,
             <<GenreRow("title", <<"F">>)>>}
      [] c = "heatmap" ->
            {<<HeatRow(<<"Year", "average_rating">>, <<Num(19950), Num(32)>>),
               HeatRow(<<"Year", "average_rating">>, <<Num(20010), Num(36)>>)>>,
             <<HeatRow(<<"Year", "score">>, <<Num(19950), Num(32)>>)>>}
      [] c = "parallel" ->
            {<<PCRow(<<Num(10), Str(<<"A">>), Num(950), Num(950), Num(300), Num(70)>>),
               PCRow(<<Num(20), Str(<<"B">>), Num(990), Num(970), Num(100), Num(70)>>)>>,
             <<PCRow(<<Num(50), Str(<<"E">>), Null, Null, Null, Null>>)>>}

\* the first render and its effects: rows [], the load pending, the observer
\* subscribed and the first reading of the width set, nothing drawn
InitLife ==
    /\ chart \in LifeCharts
    /\ config = DefaultProps(chart)
    /\ rows = <<>>
    /\ prepared = EmptyAggregate(chart)
    /\ mounted = TRUE
    /\ cancelled = FALSE
    /\ load = "pending"
    /\ width \in 0..MaxWidth
    /\ dirty = IF width = 0 THEN {} ELSE {"width"}
    /\ container = <<>>
    /\ tooltip = NoTooltip
    /\ draws = 0
    /\ pc = "mounted"
    /\ CallIdle

\* a then-callback that applies the rows whatever the flag
ApplyLoadedUnguarded(loaded) ==
    /\ rows' = loaded
    /\ dirty' = dirty \cup {"rows"}

\* .then((loaded) => { if (cancelled) return; setRows(loaded) })
ApplyLoaded(loaded) ==
    IF cancelled THEN UNCHANGED <<rows, dirty>>
    ELSE /\ rows' = loaded
         /\ dirty' = dirty \cup {"rows"}

\* the d3.csv promise resolves
LoadResolve ==
    /\ load = "pending"
    /\ \E loaded \in LoadableDatasets(chart) : ApplyLoaded(loaded)
    /\ load' = "resolved"
    /\ UNCHANGED <<chart, config, prepared, pc, callVars, mounted, cancelled,
                   width, container, tooltip, draws>>

\* the d3.csv promise rejects: .catch logs, nothing is set
LoadReject ==
    /\ load = "pending"
    /\ load' = "rejected"
    /\ UNCHANGED <<chart, rows, config, prepared, pc, callVars, mounted, cancelled,
                   width, dirty, container, tooltip, draws>>

\* the ResizeObserver callback: setWidth(Math.floor(contentRect.width)); the
\* observer is disconnected at teardown; setting the same width renders nothing
Resize ==
    /\ mounted
    /\ \E next \in 0..MaxWidth :
        /\ next # width
        /\ width' = next
    /\ dirty' = dirty \cup {"width"}
    /\ UNCHANGED <<chart, rows, config, prepared, pc, callVars, mounted, cancelled,
                   load, container, tooltip, draws>>

\* whether the draw effect goes past its early return
Drawable(c, p, w) ==
    /\ w > 0
    /\ CASE c = "genre" -> p # <<>>
         [] c = "heatmap" -> p.data # <<>>
         [] c = "parallel" -> p.data # <<>> /\ p.dims # <<>>

\* a draw effect that returns on a width <= 0 before it clears the container
DrawEffectLateClear(old, c, p, w) ==
    IF w <= 0 THEN old
    ELSE IF Drawable(c, p, w) THEN <<[width |-> w, data |-> p]>> ELSE <<>>

\* d3.select(container).selectAll('*').remove(); the early return; the svg
DrawEffect(old, c, p, w) ==
    IF Drawable(c, p, w) THEN <<[width |-> w, data |-> p]>> ELSE <<>>

\* a cleanup that forgets the tooltip: the ref is reset, the element stays
RunCleanupDetached(t) ==
    IF t.cleanup THEN [ref |-> FALSE, live |-> t.live, cleanup |-> FALSE] ELSE t

\* the cleanup the last run of the draw effect returned, if it returned one:
\* if (tooltipRef.current) { tooltipRef.current.remove(); tooltipRef.current = null }
RunCleanup(t) ==
    IF t.cleanup
    THEN [ref |-> FALSE, live |-> IF t.ref THEN t.live - 1 ELSE t.live,
          cleanup |-> FALSE]
    ELSE t

\* the draw effect past its early return: tooltipRef.current ?? a new div
\* appended to the parent of the container; the effect returns its cleanup
TooltipEffect(t, drawn) ==
    IF ~drawn THEN t
    ELSE [ref |-> TRUE, live |-> IF t.ref THEN t.live ELSE t.live + 1,
          cleanup |-> TRUE]

\* the parent renders the component with other props
SetProps ==
    /\ mounted
    /\ \E next \in LifeProps(chart) :
        /\ next # config
        /\ config' = next
    /\ dirty' = dirty \cup {"props"}
    /\ UNCHANGED <<chart, rows, prepared, pc, callVars, mounted, cancelled,
                   load, width, container, tooltip, draws>>

\* the re-render a state or props change schedules: useMemo recomputes when
\* one of its dependencies changed; when the aggregate was recomputed or the
\* width changed, the cleanup of the last draw effect runs and the draw
\* effect runs with the current width and, when it draws, with a tooltip
Render ==
    /\ mounted
    /\ dirty # {}
    /\ prepared' = IF MemoDeps(chart) \cap dirty # {}
                   THEN Aggregate(chart, rows, config) ELSE prepared
    /\ IF "width" \in dirty \/ MemoDeps(chart) \cap dirty # {}
       THEN /\ container' = DrawEffect(container, chart, prepared', width)
            /\ tooltip' = TooltipEffect(RunCleanup(tooltip),
                                        Drawable(chart, prepared', width))
            /\ draws' = IF tooltip'.cleanup /\ draws < MaxDraws
                        THEN draws + 1 ELSE draws
       ELSE UNCHANGED <<container, tooltip, draws>>
    /\ dirty' = {}
    /\ UNCHANGED <<chart, rows, config, pc, callVars, mounted, cancelled, load, width>>

\* teardown: the cleanups of the three effects (cancelled = true,
\* ro.disconnect(), the tooltip removed) and the container leaving the page
Unmount ==
    /\ mounted
    /\ mounted' = FALSE
    /\ cancelled' = TRUE
    /\ tooltip' = RunCleanup(tooltip)
    /\ container' = <<>>
    /\ dirty' = {}
    /\ pc' = "unmounted"
    /\ UNCHANGED <<chart, rows, config, prepared, callVars, load, width, draws>>

NextLife == LoadResolve \/ LoadReject \/ Resize \/ SetProps \/ Render \/ Unmount

SpecLife == InitLife /\ [][NextLife]_vars

\* C9: the rows of an instance are written only when its load resolves while
\* it is still mounted: a load that resolves after teardown is discarded and
\* nothing writes the rows after teardown.
C9_RowsOnlyWhileMounted ==
    [][(rows' # rows) =>
          (mounted /\ mounted' /\ load = "pending" /\ load' = "resolved")]_vars

\* the load resolved after the teardown and its rows were discarded
C9_Witness ==
    /\ ~mounted
    /\ load = "resolved"
    /\ rows = <<>>

\* C10: once the effects have run, the container holds the drawing of the
\* current width and nothing else, and holds nothing when the current width
\* is 0 or less, whatever was drawn before.
C10_LastWidthWins ==
    (mounted /\ dirty = {}) =>
        /\ Len(container) <= 1
        /\ \A n \in 1..Len(container) :
             container[n].width = width /\ container[n].data = prepared
        /\ width <= 0 => container = <<>>
        /\ (width > 0 /\ Drawable(chart, prepared, width)) => Len(container) = 1

\* a chart was drawn, the width fell to 0 and the container was emptied
C10_Witness ==
    /\ mounted /\ dirty = {}
    /\ draws >= 1
    /\ Drawable(chart, prepared, 1)
    /\ width = 0
    /\ container = <<>>

\* a chart drawn twice at least holds the one drawing of the current width
C10_WitnessRedrawn ==
    /\ mounted /\ dirty = {}
    /\ draws >= 2
    /\ container # <<>>

\* C12: once the effects have run, the aggregate the draw step was handed is
\* the aggregator applied to the current rows and the current configuration,
\* whatever loads, resizes and configuration changes came before: no
\* aggregate of an earlier configuration stays drawn.
C12_DrawnAggregateCurrent ==
    (mounted /\ dirty = {}) =>
        /\ prepared = Aggregate(chart, rows, config)
        /\ \A n \in 1..Len(container) :
             container[n].data = Aggregate(chart, rows, config)

\* C13: a redraw removes what the draw before it rendered and the tooltip
\* that draw created: the container holds one drawing at most, one tooltip
\* element of the instance exists at most, held by tooltipRef and made by
\* the drawing in the container, and after teardown no drawing and no
\* tooltip of the instance remains.
C13_OneTooltip ==
    /\ Len(container) <= 1
    /\ tooltip.live <= 1
    /\ tooltip.live = 1 => tooltip.ref /\ tooltip.cleanup
    /\ (mounted /\ tooltip.live = 1) => Len(container) = 1
    /\ ~mounted => (tooltip.live = 0 /\ ~tooltip.ref /\ container = <<>>)

\* a step that redraws leaves no tooltip but the one of the new drawing
C13_RedrawReplaces ==
    [][(mounted' /\ tooltip.live = 1 /\ container' # container) =>
          tooltip'.live = Len(container')]_vars

\* an instance that drew twice and was torn down: nothing of it remains
C13_Witness ==
    /\ ~mounted
    /\ draws >= 2
    /\ tooltip = NoTooltip
    /\ container = <<>>

\* an instance that drew twice holds one drawing and one tooltip
C13_WitnessRedrawn ==
    /\ mounted /\ dirty = {}
    /\ draws >= 2
    /\ tooltip.live = 1
    /\ Len(container) = 1

====
